---- MODULE Spec2Model ----
(***************************************************************************)
(* Model of the time-tracker: the record store (src/storage.js) and the    *)
(* lifecycle engine (src/taskManager.js), driven by the thin CLI wrapper   *)
(* (src/index.js) and by callers that pass numeric ids (Spec), and the     *)
(* terminal control loop of src/visualMode.js on top of them (SpecVisual). *)
(*                                                                         *)
(* Timestamps are the millisecond values behind the ISO strings the code   *)
(* stores: new Date().toISOString() keeps millisecond precision and        *)
(* new Date(iso) gives the same millisecond value back, so a timestamp is  *)
(* modelled by its integer millisecond count.  An absent / null timestamp  *)
(* is NoTime.  Strings (task names) are sequences of one-character         *)
(* strings.  A JavaScript id value is a record [t, v]: the number v, the   *)
(* decimal text of v, or null.  createdAt is written once by createTask    *)
(* and read by no operation of the engine or the control loop; the record  *)
(* of the model leaves it out.                                             *)
(*                                                                         *)
(* lastCall is the last call that changed the store (or the last clock     *)
(* advance): its name, its argument and its outcome.  A call that is       *)
(* rejected changes nothing and leaves no trace in the state; what it      *)
(* returns is the err field of the operator that models it.                *)
(***************************************************************************)
EXTENDS Integers, Sequences, FiniteSets, TLC

(* ------------------------------ bounds --------------------------------- *)
\* MaxWork bounds a behaviour: tasks created + sessions opened + clock
\* advances, none of the three above MaxEach; TickMs is the milliseconds of
\* one clock advance
MaxWork == 6
TickMs == 500
MaxEach == (MaxWork + 2) \div 3

(* -------------------------- program constants -------------------------- *)
MsPerSecond == 1000
FirstId == 1

NoTime == -1

VARIABLES data, clock, lastCall, vm

vars == <<data, clock, lastCall, vm>>

(* ------------------------- JavaScript id values ------------------------ *)
Null == [t |-> "null", v |-> 0]
Num(n) == [t |-> "num", v |-> n]
Str(n) == [t |-> "str", v |-> n]

\* parseInt(id): a number is itself, decimal text is the number it spells
parseInt(x) == x.v

\* truthiness of an id value: null and 0 are falsy, non-empty text is truthy
Truthy(x) == x.t = "str" \/ (x.t = "num" /\ x.v # 0)

(* ------------------------------- strings ------------------------------- *)
RECURSIVE trimStart(_)
trimStart(s) ==
  IF s = <<>> THEN s
  ELSE IF Head(s) = " " THEN trimStart(Tail(s)) ELSE s

RECURSIVE trimEnd(_)
trimEnd(s) ==
  IF s = <<>> THEN s
  ELSE IF s[Len(s)] = " " THEN trimEnd(SubSeq(s, 1, Len(s) - 1)) ELSE s

trim(s) == trimEnd(trimStart(s))

UpperCase == <<"A", "B", "C", "D", "E", "F", "G", "H", "I", "J", "K", "L", "M",
               "N", "O", "P", "Q", "R", "S", "T", "U", "V", "W", "X", "Y", "Z">>
LowerCase == <<"a", "b", "c", "d", "e", "f", "g", "h", "i", "j", "k", "l", "m",
               "n", "o", "p", "q", "r", "s", "t", "u", "v", "w", "x", "y", "z">>

\* s.toLowerCase()
toLowerCase(s) ==
  [k \in 1..Len(s) |->
     IF \E u \in 1..Len(UpperCase) : UpperCase[u] = s[k]
     THEN LowerCase[CHOOSE u \in 1..Len(UpperCase) : UpperCase[u] = s[k]]
     ELSE s[k]]

\* s.includes(part)
includes(s, part) ==
  \E k \in 0..(Len(s) - Len(part)) : SubSeq(s, k + 1, k + Len(part)) = part

\* s.split(' '): the pieces between single spaces, empty pieces included
RECURSIVE split(_)
split(s) ==
  LET spaces == {k \in 1..Len(s) : s[k] = " "} IN
  IF spaces = {} THEN <<s>>
  ELSE LET k == CHOOSE x \in spaces : \A y \in spaces : x <= y
       IN <<SubSeq(s, 1, k - 1)>> \o split(SubSeq(s, k + 1, Len(s)))

\* parts.join(' ')
RECURSIVE join(_)
join(parts) ==
  IF parts = <<>> THEN <<>>
  ELSE IF Len(parts) = 1 THEN Head(parts)
  ELSE Head(parts) \o <<" ">> \o join(Tail(parts))

(* ------------------------------- storage ------------------------------- *)
\* the file a fresh installation starts from
initialData == [tasks |-> <<>>, nextId |-> FirstId, lastActiveTaskId |-> Null]

\* writeFileSync replaces the file; a failed write is logged and the file
\* keeps its previous content
saveData(old, new, ok) == IF ok THEN new ELSE old

\* variant: nextId is not advanced
storage_createTask_NoIncrement(d, name, url, now, ok) ==
  LET newTask == [id |-> d.nextId, name |-> name, url |-> url,
                  status |-> "created", sessions |-> <<>>, totalTime |-> 0,
                  lastStarted |-> NoTime, lastPaused |-> NoTime,
                  stoppedAt |-> NoTime]
  IN saveData(d, [d EXCEPT !.tasks = Append(@, newTask)], ok)

storage_createTask(d, name, url, now, ok) ==
  LET newTask == [id |-> d.nextId, name |-> name, url |-> url,
                  status |-> "created", sessions |-> <<>>, totalTime |-> 0,
                  lastStarted |-> NoTime, lastPaused |-> NoTime,
                  stoppedAt |-> NoTime]
  IN saveData(d, [d EXCEPT !.tasks = Append(@, newTask), !.nextId = @ + 1], ok)

\* index of the first task whose id is parseInt(id), 0 when there is none
findIndex(d, id) ==
  LET hits == {i \in 1..Len(d.tasks) : d.tasks[i].id = parseInt(id)}
  IN IF hits = {} THEN 0 ELSE CHOOSE i \in hits : \A j \in hits : i <= j

\* { ...old, ...updates }
Merge(old, updates) ==
  [k \in DOMAIN old |-> IF k \in DOMAIN updates THEN updates[k] ELSE old[k]]

\* variant: the updates are merged into every record
updateTask_EveryTask(d, id, updates, ok) ==
  LET taskIndex == findIndex(d, id)
  IN IF taskIndex = 0 THEN d
     ELSE saveData(d, [d EXCEPT !.tasks = [k \in 1..Len(@) |-> Merge(@[k], updates)]], ok)

updateTask(d, id, updates, ok) ==
  LET taskIndex == findIndex(d, id)
  IN IF taskIndex = 0 THEN d
     ELSE saveData(d, [d EXCEPT !.tasks[taskIndex] = Merge(@, updates)], ok)

getTasksByStatus(d, status) ==
  SelectSeq(d.tasks, LAMBDA task : task.status = status)

setLastActiveTask(d, taskId, ok) ==
  saveData(d, [d EXCEPT !.lastActiveTaskId = taskId], ok)

\* index of the task the last-active pointer names, 0 for null / no match;
\* the comparison is strict, so text never equals a numeric id
storage_getLastActiveTask(d) ==
  IF Truthy(d.lastActiveTaskId)
  THEN LET hits == {i \in 1..Len(d.tasks) : Num(d.tasks[i].id) = d.lastActiveTaskId}
       IN IF hits = {} THEN 0 ELSE CHOOSE i \in hits : \A j \in hits : i <= j
  ELSE 0

(* ---------------------------- lifecycle engine ------------------------- *)
Ok == "ok"
ErrNameRequired == "Task name is required"
ErrNotFound == "Task not found"
ErrAlreadyRunning == "Task is already running"
ErrNotRunning == "Task is not currently running"
ErrNoActiveSession == "No active session found"
ErrNotStopped == "Task is not currently stopped"

Result(d, e) == [data |-> d, err |-> e]

\* variant: the duration rounded up instead of down
Duration_Ceil(startTime, endTime) ==
  (endTime - startTime + MsPerSecond - 1) \div MsPerSecond

\* Math.floor((endTime - startTime) / 1000)
Duration(startTime, endTime) == (endTime - startTime) \div MsPerSecond

\* variant: only the empty name is rejected, a blank one is not
createTask_NoBlankCheck(d, name, url, now, ok) ==
  IF name = <<>>
  THEN Result(d, ErrNameRequired)
  ELSE Result(storage_createTask(d, trim(name), trim(url), now, ok), Ok)

createTask(d, name, url, now, ok) ==
  IF name = <<>> \/ trim(name) = <<>>
  THEN Result(d, ErrNameRequired)
  ELSE Result(storage_createTask(d, trim(name), trim(url), now, ok), Ok)

\* variant: the status becomes paused but the open session is not closed
pauseTask_KeepOpen(d, taskId, now, w1, w2) ==
  LET i == findIndex(d, taskId) IN
  IF i = 0 THEN Result(d, ErrNotFound)
  ELSE LET task == d.tasks[i] IN
  IF task.status # "running" THEN Result(d, ErrNotRunning)
  ELSE LET n == Len(task.sessions) IN
  IF n > 0 /\ task.sessions[n].endTime = NoTime
  THEN LET duration == Duration(task.sessions[n].startTime, now)
           d1 == setLastActiveTask(d, taskId, w1)
       IN Result(updateTask(d1, taskId,
                            [status |-> "paused",
                             totalTime |-> task.totalTime + duration,
                             lastPaused |-> now], w2), Ok)
  ELSE Result(d, ErrNoActiveSession)

\* variant: the closed session's duration is not added to totalTime
pauseTask_NoTotal(d, taskId, now, w1, w2) ==
  LET i == findIndex(d, taskId) IN
  IF i = 0 THEN Result(d, ErrNotFound)
  ELSE LET task == d.tasks[i] IN
  IF task.status # "running" THEN Result(d, ErrNotRunning)
  ELSE LET n == Len(task.sessions) IN
  IF n > 0 /\ task.sessions[n].endTime = NoTime
  THEN LET duration == Duration(task.sessions[n].startTime, now)
           sessions == [task.sessions EXCEPT ![n].endTime = now,
                                             ![n].duration = duration]
           d1 == setLastActiveTask(d, taskId, w1)
       IN Result(updateTask(d1, taskId,
                            [status |-> "paused", sessions |-> sessions,
                             lastPaused |-> now], w2), Ok)
  ELSE Result(d, ErrNoActiveSession)

\* variant: the last-active pointer is written before the status is checked
pauseTask_SetLastFirst(d, taskId, now, w1, w2) ==
  LET i == findIndex(d, taskId) IN
  IF i = 0 THEN Result(d, ErrNotFound)
  ELSE LET task == d.tasks[i]
           d1 == setLastActiveTask(d, taskId, w1) IN
  IF task.status # "running" THEN Result(d1, ErrNotRunning)
  ELSE LET n == Len(task.sessions) IN
  IF n > 0 /\ task.sessions[n].endTime = NoTime
  THEN LET duration == Duration(task.sessions[n].startTime, now)
           sessions == [task.sessions EXCEPT ![n].endTime = now,
                                             ![n].duration = duration]
       IN Result(updateTask(d1, taskId,
                            [status |-> "paused", sessions |-> sessions,
                             totalTime |-> task.totalTime + duration,
                             lastPaused |-> now], w2), Ok)
  ELSE Result(d1, ErrNoActiveSession)

pauseTask(d, taskId, now, w1, w2) ==
  LET i == findIndex(d, taskId) IN
  IF i = 0 THEN Result(d, ErrNotFound)
  ELSE LET task == d.tasks[i] IN
  IF task.status # "running" THEN Result(d, ErrNotRunning)
  ELSE LET n == Len(task.sessions) IN
  IF n > 0 /\ task.sessions[n].endTime = NoTime
  THEN LET duration == Duration(task.sessions[n].startTime, now)
           sessions == [task.sessions EXCEPT ![n].endTime = now,
                                             ![n].duration = duration]
           d1 == setLastActiveTask(d, taskId, w1)
       IN Result(updateTask(d1, taskId,
                            [status |-> "paused", sessions |-> sessions,
                             totalTime |-> task.totalTime + duration,
                             lastPaused |-> now], w2), Ok)
  ELSE Result(d, ErrNoActiveSession)

\* runningTasks.forEach(runningTask => { if (runningTask.id !== taskId)
\* pauseTask(runningTask.id) }): the first pause that throws ends the loop
RECURSIVE pauseOthers(_, _, _, _, _, _)
pauseOthers(d, runningTasks, taskId, now, w1, w2) ==
  IF runningTasks = <<>> THEN Result(d, Ok)
  ELSE IF Num(Head(runningTasks).id) # taskId
       THEN LET r == pauseTask(d, Num(Head(runningTasks).id), now, w1, w2)
            IN IF r.err # Ok THEN r
               ELSE pauseOthers(r.data, Tail(runningTasks), taskId, now, w1, w2)
       ELSE pauseOthers(d, Tail(runningTasks), taskId, now, w1, w2)

\* variant: the running tasks are not paused first
startTask_NoAutoPause(d, taskId, now1, now2, ws) ==
  LET i == findIndex(d, taskId) IN
  IF i = 0 THEN Result(d, ErrNotFound)
  ELSE LET task == d.tasks[i] IN
  IF task.status = "running" THEN Result(d, ErrAlreadyRunning)
  ELSE LET newSession == [startTime |-> now2, endTime |-> NoTime, duration |-> 0]
           updatedSessions == Append(task.sessions, newSession)
           d1 == setLastActiveTask(d, taskId, ws[3])
       IN Result(updateTask(d1, taskId,
                            [status |-> "running", sessions |-> updatedSessions,
                             lastStarted |-> now2], ws[4]), Ok)

\* variant: lastStarted is not set
startTask_NoLastStarted(d, taskId, now1, now2, ws) ==
  LET i == findIndex(d, taskId) IN
  IF i = 0 THEN Result(d, ErrNotFound)
  ELSE LET task == d.tasks[i] IN
  IF task.status = "running" THEN Result(d, ErrAlreadyRunning)
  ELSE LET p == pauseOthers(d, getTasksByStatus(d, "running"), taskId,
                            now1, ws[1], ws[2]) IN
  IF p.err # Ok THEN p
  ELSE LET newSession == [startTime |-> now2, endTime |-> NoTime, duration |-> 0]
           updatedSessions == Append(task.sessions, newSession)
           d1 == setLastActiveTask(p.data, taskId, ws[3])
       IN Result(updateTask(d1, taskId,
                            [status |-> "running", sessions |-> updatedSessions],
                            ws[4]), Ok)

\* variant: the sessions list is started afresh with the new session
startTask_FreshSessions(d, taskId, now1, now2, ws) ==
  LET i == findIndex(d, taskId) IN
  IF i = 0 THEN Result(d, ErrNotFound)
  ELSE LET task == d.tasks[i] IN
  IF task.status = "running" THEN Result(d, ErrAlreadyRunning)
  ELSE LET p == pauseOthers(d, getTasksByStatus(d, "running"), taskId,
                            now1, ws[1], ws[2]) IN
  IF p.err # Ok THEN p
  ELSE LET newSession == [startTime |-> now2, endTime |-> NoTime, duration |-> 0]
           updatedSessions == <<newSession>>
           d1 == setLastActiveTask(p.data, taskId, ws[3])
       IN Result(updateTask(d1, taskId,
                            [status |-> "running", sessions |-> updatedSessions,
                             lastStarted |-> now2], ws[4]), Ok)

\* variant: a task that is already running is started again
startTask_NoRunningCheck(d, taskId, now1, now2, ws) ==
  LET i == findIndex(d, taskId) IN
  IF i = 0 THEN Result(d, ErrNotFound)
  ELSE LET task == d.tasks[i] IN
       LET p == pauseOthers(d, getTasksByStatus(d, "running"), taskId,
                            now1, ws[1], ws[2]) IN
  IF p.err # Ok THEN p
  ELSE LET newSession == [startTime |-> now2, endTime |-> NoTime, duration |-> 0]
           updatedSessions == Append(task.sessions, newSession)
           d1 == setLastActiveTask(p.data, taskId, ws[3])
       IN Result(updateTask(d1, taskId,
                            [status |-> "running", sessions |-> updatedSessions,
                             lastStarted |-> now2], ws[4]), Ok)

\* variant: lastStarted is the time read before the running tasks were
\* paused, not the start time of the new session
startTask_EarlyLastStarted(d, taskId, now1, now2, ws) ==
  LET i == findIndex(d, taskId) IN
  IF i = 0 THEN Result(d, ErrNotFound)
  ELSE LET task == d.tasks[i] IN
  IF task.status = "running" THEN Result(d, ErrAlreadyRunning)
  ELSE LET p == pauseOthers(d, getTasksByStatus(d, "running"), taskId,
                            now1, ws[1], ws[2]) IN
  IF p.err # Ok THEN p
  ELSE LET newSession == [startTime |-> now2, endTime |-> NoTime, duration |-> 0]
           updatedSessions == Append(task.sessions, newSession)
           d1 == setLastActiveTask(p.data, taskId, ws[3])
       IN Result(updateTask(d1, taskId,
                            [status |-> "running", sessions |-> updatedSessions,
                             lastStarted |-> now1], ws[4]), Ok)

\* now1 is the clock read by the nested pauses, now2 the one read afterwards;
\* ws[1], ws[2] are the outcomes of the writes of a nested pause, ws[3] and
\* ws[4] of the two writes of the start itself
startTask(d, taskId, now1, now2, ws) ==
  LET i == findIndex(d, taskId) IN
  IF i = 0 THEN Result(d, ErrNotFound)
  ELSE LET task == d.tasks[i] IN
  IF task.status = "running" THEN Result(d, ErrAlreadyRunning)
  ELSE LET p == pauseOthers(d, getTasksByStatus(d, "running"), taskId,
                            now1, ws[1], ws[2]) IN
  IF p.err # Ok THEN p
  ELSE LET newSession == [startTime |-> now2, endTime |-> NoTime, duration |-> 0]
           updatedSessions == Append(task.sessions, newSession)
           d1 == setLastActiveTask(p.data, taskId, ws[3])
       IN Result(updateTask(d1, taskId,
                            [status |-> "running", sessions |-> updatedSessions,
                             lastStarted |-> now2], ws[4]), Ok)

\* variant: a running task is marked stopped without being paused first
stopTask_NoPause(d, taskId, now1, now2, ws) ==
  LET i == findIndex(d, taskId) IN
  IF i = 0 THEN Result(d, ErrNotFound)
  ELSE Result(updateTask(d, taskId,
                         [status |-> "stopped", stoppedAt |-> now2], ws[3]), Ok)

\* ws[1], ws[2]: the writes of the nested pause; ws[3]: the final update
stopTask(d, taskId, now1, now2, ws) ==
  LET i == findIndex(d, taskId) IN
  IF i = 0 THEN Result(d, ErrNotFound)
  ELSE LET p == IF d.tasks[i].status = "running"
                THEN pauseTask(d, taskId, now1, ws[1], ws[2])
                ELSE Result(d, Ok) IN
  IF p.err # Ok THEN p
  ELSE Result(updateTask(p.data, taskId,
                         [status |-> "stopped", stoppedAt |-> now2], ws[3]), Ok)

\* variant: the status is not checked
unstopTask_NoGuard(d, taskId, ok) ==
  LET i == findIndex(d, taskId) IN
  IF i = 0 THEN Result(d, ErrNotFound)
  ELSE Result(updateTask(d, taskId,
                         [status |-> "paused", stoppedAt |-> NoTime], ok), Ok)

\* variant: stoppedAt is not cleared
unstopTask_KeepStoppedAt(d, taskId, ok) ==
  LET i == findIndex(d, taskId) IN
  IF i = 0 THEN Result(d, ErrNotFound)
  ELSE IF d.tasks[i].status # "stopped" THEN Result(d, ErrNotStopped)
  ELSE Result(updateTask(d, taskId, [status |-> "paused"], ok), Ok)

\* variant: unstop also clears the recorded time
unstopTask_ZeroTotal(d, taskId, ok) ==
  LET i == findIndex(d, taskId) IN
  IF i = 0 THEN Result(d, ErrNotFound)
  ELSE IF d.tasks[i].status # "stopped" THEN Result(d, ErrNotStopped)
  ELSE Result(updateTask(d, taskId,
                         [status |-> "paused", stoppedAt |-> NoTime,
                          totalTime |-> 0], ok), Ok)

unstopTask(d, taskId, ok) ==
  LET i == findIndex(d, taskId) IN
  IF i = 0 THEN Result(d, ErrNotFound)
  ELSE IF d.tasks[i].status # "stopped" THEN Result(d, ErrNotStopped)
  ELSE Result(updateTask(d, taskId,
                         [status |-> "paused", stoppedAt |-> NoTime], ok), Ok)

(* ------------------------------- queries ------------------------------- *)
SecondsPerHour == 3600
SecondsPerMinute == 60

\* the text `${hours}h ${minutes}m ${secs}s`, `${minutes}m ${secs}s` or
\* `${secs}s`, as the sequence of its (number, unit) parts
formatDuration(seconds) ==
  LET hours == seconds \div SecondsPerHour
      minutes == (seconds % SecondsPerHour) \div SecondsPerMinute
      secs == seconds % SecondsPerMinute
  IN IF hours > 0 THEN <<<<hours, "h">>, <<minutes, "m">>, <<secs, "s">>>>
     ELSE IF minutes > 0 THEN <<<<minutes, "m">>, <<secs, "s">>>>
     ELSE <<<<secs, "s">>>>

getTaskSummary(task) ==
  [id |-> task.id, name |-> task.name, url |-> task.url,
   status |-> task.status, totalTime |-> formatDuration(task.totalTime),
   totalTimeSeconds |-> task.totalTime, lastStarted |-> task.lastStarted,
   lastPaused |-> task.lastPaused, stoppedAt |-> task.stoppedAt,
   sessionCount |-> Len(task.sessions)]

\* variant: the time recorded before the open session is left out
getCurrentRunningTime_NoTotal(task, now) ==
  IF task.status # "running" \/ task.lastStarted = NoTime THEN 0
  ELSE (now - task.lastStarted) \div MsPerSecond

\* task is a summary; now is the clock the call reads
getCurrentRunningTime(task, now) ==
  IF task.status # "running" \/ task.lastStarted = NoTime THEN 0
  ELSE task.totalTimeSeconds + ((now - task.lastStarted) \div MsPerSecond)

\* the time render prints next to a task of its list
timeDisplay(task, now) ==
  IF task.status = "running"
  THEN formatDuration(getCurrentRunningTime(task, now))
  ELSE task.totalTime

MsPerDay == 86400000

\* the summaries of the tasks worked on since the start of the day of now
\* (the day is taken in UTC)
getTodaysTasks(d, now) ==
  LET todayStart == now - (now % MsPerDay)
      workedToday(task) ==
        \/ task.lastStarted # NoTime /\ task.lastStarted >= todayStart
        \/ task.lastPaused # NoTime /\ task.lastPaused >= todayStart
        \/ /\ task.sessions # <<>>
           /\ \E k \in 1..Len(task.sessions) :
                \/ task.sessions[k].startTime >= todayStart
                \/ /\ task.sessions[k].endTime # NoTime
                   /\ task.sessions[k].endTime >= todayStart
      todaysTasks == SelectSeq(d.tasks, workedToday)
  IN [k \in 1..Len(todaysTasks) |-> getTaskSummary(todaysTasks[k])]

\* every write of the call reaches the file
AllWritesOk == [k \in 1..4 |-> TRUE]

(* ---------------------------- control loop ----------------------------- *)
\* The VisualMode object.  selectedIndex counts from 0 as in the code; the
\* status line is a record of the kind of message, the task name it quotes
\* and the formatted time it quotes.  exited is set once process.exit has
\* been called, uncaught holds an error that escaped a key handler.
\* timeouts is the set of times at which a pending message-expiry timeout
\* is due (timeouts due at the same time run one after the other with the
\* same effect, so they are kept as one); messageDue is bookkeeping for the
\* properties, not a field of the object: the time at which the timeout
\* created together with the current status message is due.
Message(kind, name, time) == [kind |-> kind, name |-> name, time |-> time]
NoMessage == Message("none", <<>>, <<>>)

VisualMode ==
  [tasks |-> <<>>, selectedIndex |-> 0, isActive |-> FALSE,
   timerInterval |-> FALSE, inputBuffer |-> <<>>, showCursor |-> TRUE,
   cursorInterval |-> FALSE, statusMessage |-> NoMessage,
   timeouts |-> {}, messageDue |-> NoTime,
   exited |-> FALSE, uncaught |-> Ok]

\* what a method of the loop leaves behind: the object, the store, and the
\* error it threw (Ok when it returned)
Outcome(v, d, e) == [vm |-> v, data |-> d, err |-> e]

\* const x = val; ... : val is computed once and handed to F
With(val, F(_)) == CHOOSE out \in {F(x) : x \in {val}} : TRUE

Max(a, b) == IF a >= b THEN a ELSE b
Min(a, b) == IF a <= b THEN a ELSE b

\* refreshTasks without the check of selectedIndex
refreshTasks_NoClamp(v, d, now) ==
  LET tasks == SelectSeq(getTodaysTasks(d, now),
                         LAMBDA task : task.status # "stopped")
  IN [v EXCEPT !.tasks = tasks]

refreshTasks(v, d, now) ==
  LET tasks == SelectSeq(getTodaysTasks(d, now),
                         LAMBDA task : task.status # "stopped")
  IN [v EXCEPT !.tasks = tasks,
               !.selectedIndex = IF @ >= Len(tasks)
                                 THEN Max(0, Len(tasks) - 1) ELSE @]

\* start(): load the list, select the running task, install the timers
start(v, d, now) ==
  LET tasks == SelectSeq(getTodaysTasks(d, now),
                         LAMBDA task : task.status # "stopped")
      running == {k \in 1..Len(tasks) : tasks[k].status = "running"}
  IN [v EXCEPT !.tasks = tasks, !.isActive = TRUE,
               !.selectedIndex =
                  IF running = {} THEN 0
                  ELSE (CHOOSE k \in running : \A j \in running : k <= j) - 1,
               !.timerInterval = TRUE, !.cursorInterval = TRUE]

\* now is the clock at the call of setTimeout
showMessage(v, message, duration, now) ==
  [v EXCEPT !.statusMessage = message,
            !.timeouts = @ \cup {now + duration},
            !.messageDue = now + duration]

exit(v) ==
  [v EXCEPT !.isActive = FALSE, !.timerInterval = FALSE,
            !.cursorInterval = FALSE, !.exited = TRUE]

createAndStartTask(v, d, taskName, now) ==
  With(createTask(d, taskName, <<>>, now, TRUE), LAMBDA c :
    IF c.err # Ok THEN Outcome(v, c.data, c.err)
    ELSE With(startTask(c.data, Num(c.data.tasks[Len(c.data.tasks)].id),
                        now, now, AllWritesOk), LAMBDA s :
      IF s.err # Ok THEN Outcome(v, s.data, s.err)
      ELSE Outcome(refreshTasks(showMessage(v, Message("Created and started", taskName, <<>>), 1500, now),
                                s.data, now),
                   s.data, Ok)))

startExisting(v, d, existingTask, now) ==
  With(startTask(d, Num(existingTask.id), now, now, AllWritesOk), LAMBDA s :
    IF s.err # Ok THEN Outcome(v, s.data, s.err)
    ELSE Outcome(refreshTasks(showMessage(v, Message("Started", existingTask.name, <<>>), 1500, now),
                              s.data, now),
                 s.data, Ok))

startTaskByName(v, d, taskName, now) ==
  LET hits == {k \in 1..Len(v.tasks) :
                 includes(toLowerCase(v.tasks[k].name), toLowerCase(taskName))}
  IN IF hits # {}
     THEN startExisting(v, d, v.tasks[CHOOSE k \in hits : \A j \in hits : k <= j], now)
     ELSE With(createAndStartTask(v, d, taskName, now), LAMBDA r :
            IF r.err # Ok THEN r
            ELSE Outcome(refreshTasks(r.vm, r.data, now), r.data, Ok))

resumeTask(v, d, lastTask, now) ==
  IF lastTask.status = "stopped"
  THEN Outcome(showMessage(v, Message("Last task is stopped", lastTask.name, <<>>), 2000, now), d, Ok)
  ELSE With(startTask(d, Num(lastTask.id), now, now, AllWritesOk), LAMBDA s :
         IF s.err # Ok THEN Outcome(v, s.data, s.err)
         ELSE Outcome(refreshTasks(showMessage(v, Message("Resumed", lastTask.name, <<>>), 1500, now),
                                   s.data, now),
                      s.data, Ok))

startLastTask(v, d, now) ==
  With(storage_getLastActiveTask(d), LAMBDA i :
    IF i = 0
    THEN Outcome(showMessage(v, Message("No previous task found", <<>>, <<>>), 2000, now), d, Ok)
    ELSE resumeTask(v, d, getTaskSummary(d.tasks[i]), now))

\* the message and the refresh after the task with this id has been paused
showPaused(v, d, id, now) ==
  With(getTaskSummary(d.tasks[findIndex(d, id)]), LAMBDA summary :
    refreshTasks(showMessage(v, Message("Paused", summary.name, summary.totalTime), 1500, now),
                 d, now))

\* the message after a start, without the refresh of the list
showStarted_NoRefresh(v, d, id, now) ==
  With(getTaskSummary(d.tasks[findIndex(d, id)]), LAMBDA summary :
    showMessage(v, Message("Started", summary.name, <<>>), 1500, now))

\* the message and the refresh after the task with this id has been started
showStarted(v, d, id, now) ==
  With(getTaskSummary(d.tasks[findIndex(d, id)]), LAMBDA summary :
    refreshTasks(showMessage(v, Message("Started", summary.name, <<>>), 1500, now), d, now))

\* stopCurrentTask calling stopTask instead of pauseTask
stopCurrentTask_Stops(v, d, now) ==
  With(getTasksByStatus(d, "running"), LAMBDA runningTasks :
    IF runningTasks = <<>>
    THEN Outcome(showMessage(v, Message("No task is currently running", <<>>, <<>>), 2000, now), d, Ok)
    ELSE With(stopTask(d, Num(Head(runningTasks).id), now, now, AllWritesOk), LAMBDA p :
           IF p.err # Ok THEN Outcome(v, p.data, p.err)
           ELSE Outcome(showPaused(v, p.data, Num(Head(runningTasks).id), now), p.data, Ok)))

stopCurrentTask(v, d, now) ==
  With(getTasksByStatus(d, "running"), LAMBDA runningTasks :
    IF runningTasks = <<>>
    THEN Outcome(showMessage(v, Message("No task is currently running", <<>>, <<>>), 2000, now), d, Ok)
    ELSE With(pauseTask(d, Num(Head(runningTasks).id), now, TRUE, TRUE), LAMBDA p :
           IF p.err # Ok THEN Outcome(v, p.data, p.err)
           ELSE Outcome(showPaused(v, p.data, Num(Head(runningTasks).id), now), p.data, Ok)))

\* toggleSelectedTask acting on the first entry of the list
toggleSelectedTask_First(v, d, now) ==
  IF v.selectedIndex < 0 \/ v.selectedIndex >= Len(v.tasks) THEN Outcome(v, d, Ok)
  ELSE With(v.tasks[1], LAMBDA selectedTask :
    IF selectedTask.status = "running"
    THEN With(pauseTask(d, Num(selectedTask.id), now, TRUE, TRUE), LAMBDA p :
           IF p.err # Ok THEN Outcome(v, p.data, p.err)
           ELSE Outcome(showPaused(v, p.data, Num(selectedTask.id), now), p.data, Ok))
    ELSE With(startTask(d, Num(selectedTask.id), now, now, AllWritesOk), LAMBDA s :
           IF s.err # Ok THEN Outcome(v, s.data, s.err)
           ELSE Outcome(showStarted(v, s.data, Num(selectedTask.id), now), s.data, Ok)))

toggleSelectedTask(v, d, now) ==
  IF v.selectedIndex < 0 \/ v.selectedIndex >= Len(v.tasks) THEN Outcome(v, d, Ok)
  ELSE With(v.tasks[v.selectedIndex + 1], LAMBDA selectedTask :
    IF selectedTask.status = "running"
    THEN With(pauseTask(d, Num(selectedTask.id), now, TRUE, TRUE), LAMBDA p :
           IF p.err # Ok THEN Outcome(v, p.data, p.err)
           ELSE Outcome(showPaused(v, p.data, Num(selectedTask.id), now), p.data, Ok))
    ELSE With(startTask(d, Num(selectedTask.id), now, now, AllWritesOk), LAMBDA s :
           IF s.err # Ok THEN Outcome(v, s.data, s.err)
           ELSE Outcome(showStarted(v, s.data, Num(selectedTask.id), now), s.data, Ok)))

\* the command words of the input line
WordStart == <<"s", "t", "a", "r", "t">>
WordStop == <<"s", "t", "o", "p">>
WordExit == <<"e", "x", "i", "t">>
WordQuit == <<"q", "u", "i", "t">>

\* the end of processCommand: an error the try block caught is shown, the
\* input buffer is cleared
finishCommand(now, r) ==
  Outcome([(IF r.err # Ok
            THEN showMessage(r.vm, Message("Error", <<r.err>>, <<>>), 2000, now)
            ELSE r.vm) EXCEPT !.inputBuffer = <<>>],
          r.data, r.err)

\* variant: a line that is no command is looked up among the listed tasks
\* before a task is created for it
processCommand_ReuseName(v, d, now) ==
  With(trim(v.inputBuffer), LAMBDA input :
  With(split(input), LAMBDA parts :
  With(toLowerCase(Head(parts)), LAMBDA command :
    IF command \in {WordExit, WordQuit} THEN Outcome(exit(v), d, Ok)
    ELSE finishCommand(now,
           IF command = WordStart
           THEN IF Len(Tail(parts)) > 0
                THEN startTaskByName(v, d, join(Tail(parts)), now)
                ELSE startLastTask(v, d, now)
           ELSE IF command = WordStop THEN stopCurrentTask(v, d, now)
           ELSE IF Len(input) > 0 THEN startTaskByName(v, d, input, now)
           ELSE Outcome(v, d, Ok)))))

\* err of the outcome is the error the try block caught and showed
processCommand(v, d, now) ==
  With(trim(v.inputBuffer), LAMBDA input :
  With(split(input), LAMBDA parts :
  With(toLowerCase(Head(parts)), LAMBDA command :
    IF command \in {WordExit, WordQuit} THEN Outcome(exit(v), d, Ok)
    ELSE finishCommand(now,
           IF command = WordStart
           THEN IF Len(Tail(parts)) > 0
                THEN startTaskByName(v, d, join(Tail(parts)), now)
                ELSE startLastTask(v, d, now)
           ELSE IF command = WordStop THEN stopCurrentTask(v, d, now)
           ELSE IF Len(input) > 0 THEN createAndStartTask(v, d, input, now)
           ELSE Outcome(v, d, Ok)))))

\* handleKeyPress('\r'): a non-blank line is a command, an empty one toggles
\* the selected task; an error of the toggle is caught by nobody
handleEnter(v, d, now) ==
  IF ~v.isActive THEN Outcome(v, d, Ok)
  ELSE IF trim(v.inputBuffer) # <<>> THEN processCommand(v, d, now)
  ELSE IF Len(v.tasks) > 0
  THEN With(toggleSelectedTask(v, d, now), LAMBDA r :
         IF r.err # Ok
         THEN Outcome([r.vm EXCEPT !.uncaught = r.err], r.data, r.err)
         ELSE r)
  ELSE Outcome(v, d, Ok)

\* handleKeyPress(c) for the printable characters of line, one after another
handleChars(v, line) ==
  IF ~v.isActive THEN v ELSE [v EXCEPT !.inputBuffer = @ \o line]

\* handleKeyPress, Up arrow
handleUp(v) ==
  IF ~v.isActive THEN v
  ELSE IF Len(v.tasks) > 0
  THEN [v EXCEPT !.selectedIndex = Max(0, @ - 1)]
  ELSE v

\* handleKeyPress, Down arrow
handleDown(v) ==
  IF ~v.isActive THEN v
  ELSE IF Len(v.tasks) > 0
  THEN [v EXCEPT !.selectedIndex = Min(Len(v.tasks) - 1, @ + 1)]
  ELSE v

\* handleKeyPress, Ctrl+C
handleCtrlC(v) == IF ~v.isActive THEN v ELSE exit(v)

\* Escape leaving the loop whatever the buffer holds
handleEscape_AlwaysExits(v) == IF ~v.isActive THEN v ELSE exit(v)

\* handleKeyPress, Escape
handleEscape(v) ==
  IF ~v.isActive THEN v
  ELSE IF Len(v.inputBuffer) > 0
  THEN [v EXCEPT !.inputBuffer = <<>>]
  ELSE exit(v)

\* the timeout callback leaving the message on display
messageTimeout_KeepsMessage(v, due) == [v EXCEPT !.timeouts = @ \ {due}]

\* the callback of the timeout that showMessage set, run when it is due
messageTimeout(v, due) ==
  [(IF v.isActive THEN [v EXCEPT !.statusMessage = NoMessage] ELSE v)
     EXCEPT !.timeouts = @ \ {due}]

(* ------------------------------- inputs -------------------------------- *)
\* names typed by the user: empty, blank, and one that needs trimming
NameInputs == {<<>>, <<" ">>, <<" ", "a">>}

\* ids as the control loop passes them (numbers, including one no task has)
\* and as the command line passes them (text)
IdInputs == {Num(n) : n \in FirstId..data.nextId} \cup {Str(FirstId)}

RECURSIVE CountSessions(_)
CountSessions(tasks) ==
  IF tasks = <<>> THEN 0
  ELSE Len(Head(tasks).sessions) + CountSessions(Tail(tasks))

Ticks == clock \div TickMs

\* tasks created + sessions opened + clock advances so far
Work == Len(data.tasks) + CountSessions(data.tasks) + Ticks

\* the clock values a second new Date() of the same call can read, the call
\* itself using `used` units of work
LaterReads(used) ==
  {clock} \cup (IF Work + used < MaxWork /\ Ticks < MaxEach
               THEN {clock + TickMs} ELSE {})

Call(op, arg, err) == [op |-> op, arg |-> arg, err |-> err]

\* lastCall after a call that returned r: a call that changed nothing in the
\* store (a rejected call) leaves no trace
After(op, arg, r) == IF r.data = data THEN lastCall ELSE Call(op, arg, r.err)

(* ------------------------------- actions ------------------------------- *)
Init ==
  /\ data = initialData
  /\ clock = 0
  /\ lastCall = Call("none", Null, Ok)
  /\ vm = VisualMode

Tick ==
  /\ Work < MaxWork /\ Ticks < MaxEach
  /\ clock' = clock + TickMs
  /\ lastCall' = Call("tick", Null, Ok)
  /\ UNCHANGED <<data, vm>>

CreateTask ==
  \E name \in NameInputs :
    /\ Work < MaxWork /\ Len(data.tasks) < MaxEach
    /\ LET r == createTask(data, name, <<>>, clock, TRUE)
       IN /\ data' = r.data
          /\ lastCall' = After("createTask", Null, r)
    /\ UNCHANGED <<clock, vm>>

StartTask ==
  \E taskId \in IdInputs, now2 \in LaterReads(1) :
    /\ Work < MaxWork /\ CountSessions(data.tasks) < MaxEach
    /\ LET r == startTask(data, taskId, clock, now2, AllWritesOk)
       IN /\ data' = r.data
          /\ lastCall' = After("start", taskId, r)
          /\ clock' = IF r.data = data THEN clock ELSE now2
    /\ UNCHANGED vm

PauseTask ==
  \E taskId \in IdInputs :
    /\ LET r == pauseTask(data, taskId, clock, TRUE, TRUE)
       IN /\ data' = r.data
          /\ lastCall' = After("pause", taskId, r)
    /\ UNCHANGED <<clock, vm>>

StopTask ==
  \E taskId \in IdInputs, now2 \in LaterReads(0) :
    /\ LET r == stopTask(data, taskId, clock, now2, AllWritesOk)
       IN /\ data' = r.data
          /\ lastCall' = After("stop", taskId, r)
          /\ clock' = IF r.data = data THEN clock ELSE now2
    /\ UNCHANGED vm

UnstopTask ==
  \E taskId \in IdInputs :
    /\ LET r == unstopTask(data, taskId, TRUE)
       IN /\ data' = r.data
          /\ lastCall' = After("unstop", taskId, r)
    /\ UNCHANGED <<clock, vm>>

Next ==
  \/ Tick
  \/ CreateTask
  \/ StartTask
  \/ PauseTask
  \/ StopTask
  \/ UnstopTask

Spec == Init /\ [][Next]_vars

(* ------------------------ control loop: actions ------------------------ *)
\* lines typed into the control loop: a free-text task name with spaces
\* around and inside, start with a name, start with a number, start alone,
\* stop, exit
LineInputs ==
  { <<" ", "a", " ", "b", " ">>,
    <<"S", "t", "a", "r", "t", " ", "A">>,
    <<"s", "t", "a", "r", "t", " ", "1">>,
    <<"s", "t", "a", "r", "t">>,
    <<"s", "t", "o", "p">> }

\* the process is running: it has neither exited nor died of an error
Alive == ~vm.exited /\ vm.uncaught = Ok

\* commands given on the command line before the control loop is opened;
\* the command line passes the id as the text the user typed
CliIds == {Str(n) : n \in FirstId..(data.nextId - 1)}

CliCreateTask == Alive /\ ~vm.isActive /\ CreateTask

CliStartTask ==
  \E taskId \in CliIds :
    /\ Alive /\ ~vm.isActive
    /\ Work < MaxWork /\ CountSessions(data.tasks) < MaxEach
    /\ LET r == startTask(data, taskId, clock, clock, AllWritesOk)
       IN /\ data' = r.data
          /\ lastCall' = After("start", taskId, r)
    /\ UNCHANGED <<clock, vm>>

CliPauseTask ==
  \E taskId \in CliIds :
    /\ Alive /\ ~vm.isActive
    /\ LET r == pauseTask(data, taskId, clock, TRUE, TRUE)
       IN /\ data' = r.data
          /\ lastCall' = After("pause", taskId, r)
    /\ UNCHANGED <<clock, vm>>

CliStopTask ==
  \E taskId \in CliIds :
    /\ Alive /\ ~vm.isActive
    /\ LET r == stopTask(data, taskId, clock, clock, AllWritesOk)
       IN /\ data' = r.data
          /\ lastCall' = After("stop", taskId, r)
    /\ UNCHANGED <<clock, vm>>

\* time passes while the control loop is open
LoopTick == Alive /\ vm.isActive /\ Tick

\* index.js without a command: new InteractiveMode().start()
VmStart ==
  /\ Alive /\ ~vm.isActive
  /\ vm' = start(vm, data, clock)
  /\ lastCall' = Call("open", Null, Ok)
  /\ UNCHANGED <<data, clock>>

\* the user types a line on an empty input buffer
TypeLine ==
  \E line \in LineInputs :
    /\ Alive /\ vm.isActive /\ vm.inputBuffer = <<>>
    /\ vm' = handleChars(vm, line)
    /\ lastCall' = Call("type", Null, Ok)
    /\ UNCHANGED <<data, clock>>

\* the user presses Enter
EnterKey ==
  /\ Alive /\ vm.isActive
  /\ \E r \in {handleEnter(vm, data, clock)} :
       /\ Len(r.data.tasks) <= MaxEach
       /\ CountSessions(r.data.tasks) <= MaxEach
       /\ Len(r.data.tasks) + CountSessions(r.data.tasks) + Ticks <= MaxWork
       /\ Cardinality(r.vm.timeouts) <= MaxEach
       /\ vm' = r.vm
       /\ data' = r.data
       /\ lastCall' = IF r.vm = vm /\ r.data = data THEN lastCall
                      ELSE Call("enter", Null, r.err)
  /\ UNCHANGED clock

\* the user presses the Up arrow, the Down arrow, Escape, Ctrl+C
UpKey ==
  /\ Alive /\ vm.isActive
  /\ vm' = handleUp(vm)
  /\ lastCall' = Call("up", Null, Ok)
  /\ UNCHANGED <<data, clock>>

DownKey ==
  /\ Alive /\ vm.isActive
  /\ vm' = handleDown(vm)
  /\ lastCall' = Call("down", Null, Ok)
  /\ UNCHANGED <<data, clock>>

EscapeKey ==
  /\ Alive /\ vm.isActive
  /\ vm' = handleEscape(vm)
  /\ lastCall' = Call("escape", Null, Ok)
  /\ UNCHANGED <<data, clock>>

CtrlCKey ==
  /\ Alive /\ vm.isActive
  /\ vm' = handleCtrlC(vm)
  /\ lastCall' = Call("interrupt", Null, Ok)
  /\ UNCHANGED <<data, clock>>

NextVisual ==
  \/ LoopTick
  \/ CliCreateTask
  \/ CliStartTask
  \/ CliPauseTask
  \/ CliStopTask
  \/ VmStart
  \/ TypeLine
  \/ EnterKey

SpecVisual == Init /\ [][NextVisual]_vars

(* ------ the control loop with all its keys, with another process ------ *)
(* ------ writing the store, and with its message timeouts running ------ *)
KeyLineInputs ==
  { <<" ">>,
    <<"s", "t", "o", "p">>,
    <<"e", "x", "i", "t">>,
    <<"q", "u", "i", "t">> }

TypeKeyLine ==
  \E line \in KeyLineInputs :
    /\ Alive /\ vm.isActive /\ vm.inputBuffer = <<>>
    /\ vm' = handleChars(vm, line)
    /\ lastCall' = Call("type", Null, Ok)
    /\ UNCHANGED <<data, clock>>

\* the callback of the refresh interval that startTimer set; lastCall keeps
\* the selectedIndex it found
RefreshTick ==
  /\ Alive /\ vm.isActive /\ vm.timerInterval
  /\ vm' = refreshTasks(vm, data, clock)
  /\ lastCall' = Call("refresh", Num(vm.selectedIndex), Ok)
  /\ UNCHANGED <<data, clock>>

\* a command line run in another terminal while the control loop is open
ExternalPauseTask ==
  \E taskId \in CliIds :
    /\ Alive /\ vm.isActive
    /\ LET r == pauseTask(data, taskId, clock, TRUE, TRUE)
       IN /\ data' = r.data
          /\ lastCall' = After("pause", taskId, r)
    /\ UNCHANGED <<clock, vm>>

ExternalStopTask ==
  \E taskId \in CliIds :
    /\ Alive /\ vm.isActive
    /\ LET r == stopTask(data, taskId, clock, clock, AllWritesOk)
       IN /\ data' = r.data
          /\ lastCall' = After("stop", taskId, r)
    /\ UNCHANGED <<clock, vm>>

\* time passes until the earliest pending message timeout is due
AwaitTimeout ==
  /\ Alive /\ vm.isActive
  /\ \E due \in vm.timeouts :
       /\ \A other \in vm.timeouts : due <= other
       /\ clock < due
       /\ clock' = due
  /\ lastCall' = Call("tick", Null, Ok)
  /\ UNCHANGED <<data, vm>>

\* a message timeout that is due runs its callback
MessageTimeout ==
  /\ Alive
  /\ \E due \in vm.timeouts :
       /\ due <= clock
       /\ vm' = messageTimeout(vm, due)
  /\ lastCall' = Call("timeout", Null, Ok)
  /\ UNCHANGED <<data, clock>>

\* the user presses Enter in a loop in which no time passes: the whole
\* budget of work goes to tasks and sessions
EnterKeyAtRest ==
  /\ Alive /\ vm.isActive
  /\ \E r \in {handleEnter(vm, data, clock)} :
       /\ Len(r.data.tasks) <= MaxEach
       /\ Len(r.data.tasks) + CountSessions(r.data.tasks) <= MaxWork
       /\ Cardinality(r.vm.timeouts) <= MaxEach
       /\ vm' = r.vm
       /\ data' = r.data
       /\ lastCall' = IF r.vm = vm /\ r.data = data THEN lastCall
                      ELSE Call("enter", Null, r.err)
  /\ UNCHANGED clock

NextKeys ==
  \/ CliCreateTask
  \/ CliStartTask
  \/ VmStart
  \/ TypeKeyLine
  \/ EnterKeyAtRest
  \/ UpKey
  \/ DownKey
  \/ EscapeKey
  \/ CtrlCKey

SpecKeys == Init /\ [][NextKeys]_vars

\* the control loop while another process writes the store
NextShared ==
  \/ CliCreateTask
  \/ CliStartTask
  \/ VmStart
  \/ TypeKeyLine
  \/ EnterKeyAtRest
  \/ UpKey
  \/ DownKey
  \/ RefreshTick
  \/ ExternalPauseTask
  \/ ExternalStopTask

SpecShared == Init /\ [][NextShared]_vars

\* the control loop with time passing and its message timeouts running
NextTimers ==
  \/ CliCreateTask
  \/ VmStart
  \/ TypeKeyLine
  \/ EnterKey
  \/ LoopTick
  \/ AwaitTimeout
  \/ MessageTimeout

SpecTimers == Init /\ [][NextTimers]_vars

(* ------------- the lifecycle engine on a store whose writes ------------- *)
(* ------------- can fail (saveData logs the error and returns) ---------- *)
\* the outcomes of the (up to four) writes of one call: at most one fails
WriteOutcomes ==
  {AllWritesOk} \cup {[AllWritesOk EXCEPT ![k] = FALSE] : k \in 1..4}

FaultyStartTask ==
  \E taskId \in IdInputs, ws \in WriteOutcomes :
    /\ Work < MaxWork /\ CountSessions(data.tasks) < MaxEach
    /\ LET r == startTask(data, taskId, clock, clock, ws)
       IN /\ data' = r.data
          /\ lastCall' = After("start", taskId, r)
    /\ UNCHANGED <<clock, vm>>

FaultyPauseTask ==
  \E taskId \in IdInputs, ws \in WriteOutcomes :
    /\ LET r == pauseTask(data, taskId, clock, ws[1], ws[2])
       IN /\ data' = r.data
          /\ lastCall' = After("pause", taskId, r)
    /\ UNCHANGED <<clock, vm>>

FaultyStopTask ==
  \E taskId \in IdInputs, ws \in WriteOutcomes :
    /\ LET r == stopTask(data, taskId, clock, clock, ws)
       IN /\ data' = r.data
          /\ lastCall' = After("stop", taskId, r)
    /\ UNCHANGED <<clock, vm>>

FaultyUnstopTask ==
  \E taskId \in IdInputs, ok \in BOOLEAN :
    /\ LET r == unstopTask(data, taskId, ok)
       IN /\ data' = r.data
          /\ lastCall' = After("unstop", taskId, r)
    /\ UNCHANGED <<clock, vm>>

NextFaulty ==
  \/ Tick
  \/ CreateTask
  \/ FaultyStartTask
  \/ FaultyPauseTask
  \/ FaultyStopTask
  \/ FaultyUnstopTask

SpecFaulty == Init /\ [][NextFaulty]_vars

\* the same loop under fair timers: while the process runs, time goes on
\* to the next pending timeout, and a timeout that is due is run by the
\* event loop
SpecTimersFair ==
  /\ Init /\ [][NextTimers]_vars
  /\ WF_vars(AwaitTimeout)
  /\ WF_vars(MessageTimeout)

(* -------------------- arrow-key navigation view ------------------------ *)
\* The VisualNavigation object, held in vm by the specification of that
\* view.  timeouts is the set of pending setTimeout calls, each with the time
\* it is due and what its callback does; screen is what the terminal shows
\* last; left tells that exit() or exitToCommandMode() has run; exited that
\* process.exit has been called.
VisualNavigation ==
  [tasks |-> <<>>, selectedIndex |-> 0, isActive |-> FALSE,
   timerInterval |-> FALSE, timeouts |-> {}, screen |-> "none",
   left |-> FALSE, exited |-> FALSE, uncaught |-> Ok]

Timeout(due, kind) == [due |-> due, kind |-> kind]

\* render(): the frame with the list replaces what the terminal shows
nav_render(v) == [v EXCEPT !.screen = "frame"]

nav_start(v, d, now) ==
  LET tasks == SelectSeq(getTodaysTasks(d, now),
                         LAMBDA task : task.status # "stopped")
      running == {k \in 1..Len(tasks) : tasks[k].status = "running"}
  IN IF Len(tasks) = 0 THEN [v EXCEPT !.tasks = tasks, !.screen = "result"]
     ELSE nav_render(
            [v EXCEPT !.tasks = tasks, !.isActive = TRUE,
                      !.selectedIndex =
                         IF running = {} THEN 0
                         ELSE (CHOOSE k \in running : \A j \in running : k <= j) - 1,
                      !.timerInterval = TRUE])

\* the callback of the timeout set after a successful start or pause
nav_refreshLater(v, d, now) ==
  nav_render([v EXCEPT !.tasks = SelectSeq(getTodaysTasks(d, now),
                                           LAMBDA task : task.status # "stopped")])

nav_selectCurrentTask(v, d, now) ==
  IF v.selectedIndex < 0 \/ v.selectedIndex >= Len(v.tasks) THEN Outcome(v, d, Ok)
  ELSE With(v.tasks[v.selectedIndex + 1], LAMBDA selectedTask :
    With(IF selectedTask.status = "running"
         THEN pauseTask(d, Num(selectedTask.id), now, TRUE, TRUE)
         ELSE startTask(d, Num(selectedTask.id), now, now, AllWritesOk), LAMBDA r :
      IF r.err = Ok
      THEN Outcome([v EXCEPT !.screen = "result",
                             !.timeouts = @ \cup {Timeout(now + 1000, "refresh")}],
                   r.data, Ok)
      ELSE Outcome([v EXCEPT !.screen = "result",
                             !.timeouts = @ \cup {Timeout(now + 2000, "render")}],
                   r.data, r.err)))

nav_refreshTasksAndRender(v, d, now) ==
  LET tasks == SelectSeq(getTodaysTasks(d, now),
                         LAMBDA task : task.status # "stopped")
  IN nav_render([v EXCEPT !.tasks = tasks,
                          !.selectedIndex = IF @ >= Len(tasks)
                                            THEN Max(0, Len(tasks) - 1) ELSE @])

\* exit() and exitToCommandMode() differ in the text they print only
nav_exit(v, now) ==
  [v EXCEPT !.isActive = FALSE, !.timerInterval = FALSE, !.left = TRUE,
            !.screen = "left",
            !.timeouts = @ \cup {Timeout(now + 100, "prompt")}]

nav_exitToCommandMode(v, now) ==
  [v EXCEPT !.isActive = FALSE, !.timerInterval = FALSE, !.left = TRUE,
            !.screen = "left",
            !.timeouts = @ \cup {Timeout(now + 100, "prompt")}]

\* handleKeyPress(key); the keys are "up", "down", "enter", "escape", "q",
\* "c" and "ctrl-c"
nav_handleKeyPress(v, d, key, now) ==
  IF ~v.isActive THEN Outcome(v, d, Ok)
  ELSE CASE key = "up" ->
              Outcome(nav_render([v EXCEPT !.selectedIndex = Max(0, @ - 1)]), d, Ok)
         [] key = "down" ->
              Outcome(nav_render([v EXCEPT !.selectedIndex =
                                     Min(Len(v.tasks) - 1, @ + 1)]), d, Ok)
         [] key = "enter" -> nav_selectCurrentTask(v, d, now)
         [] key \in {"escape", "q"} -> Outcome(nav_exit(v, now), d, Ok)
         [] key = "c" -> Outcome(nav_exitToCommandMode(v, now), d, Ok)
         [] key = "ctrl-c" ->
              Outcome([nav_exit(v, now) EXCEPT !.exited = TRUE], d, Ok)
         [] OTHER -> Outcome(v, d, Ok)

\* the callback of a timeout of the view
nav_timeout(v, d, t, now) ==
  [(CASE t.kind = "refresh" -> nav_refreshLater(v, d, now)
      [] t.kind = "render" -> nav_render(v)
      [] OTHER -> [v EXCEPT !.screen = "prompt"])
     EXCEPT !.timeouts = @ \ {t}]

NavKeys == {"up", "down", "enter", "escape", "q", "c", "ctrl-c"}

InitNav ==
  /\ data = initialData
  /\ clock = 0
  /\ lastCall = Call("none", Null, Ok)
  /\ vm = VisualNavigation

\* the `nav` command of the interactive prompt
NavStart ==
  /\ Alive /\ ~vm.isActive /\ ~vm.left
  /\ vm' = nav_start(vm, data, clock)
  /\ lastCall' = Call("open", Null, Ok)
  /\ UNCHANGED <<data, clock>>

NavKey ==
  \E key \in NavKeys :
    /\ Alive /\ vm.isActive
    /\ \E r \in {nav_handleKeyPress(vm, data, key, clock)} :
         /\ Len(r.data.tasks) + CountSessions(r.data.tasks) + Ticks <= MaxWork
         /\ Cardinality(r.vm.timeouts) <= MaxEach
         /\ vm' = r.vm
         /\ data' = r.data
         /\ lastCall' = Call(key, Null, r.err)
    /\ UNCHANGED clock

\* the callback of the interval that startTimer set
NavTimerTick ==
  /\ Alive /\ vm.timerInterval
  /\ vm' = IF vm.isActive THEN nav_refreshTasksAndRender(vm, data, clock) ELSE vm
  /\ lastCall' = Call("refresh", Null, Ok)
  /\ UNCHANGED <<data, clock>>

\* time passes until the earliest pending timeout is due
NavAwaitTimeout ==
  /\ Alive
  /\ \E t \in vm.timeouts :
       /\ \A other \in vm.timeouts : t.due <= other.due
       /\ clock < t.due
       /\ clock' = t.due
  /\ lastCall' = Call("tick", Null, Ok)
  /\ UNCHANGED <<data, vm>>

\* a timeout that is due runs its callback
NavTimeout ==
  /\ Alive
  /\ \E t \in vm.timeouts :
       /\ t.due <= clock
       /\ vm' = nav_timeout(vm, data, t, clock)
       /\ lastCall' = Call("timeout", Null, Ok)
  /\ UNCHANGED <<data, clock>>

NextNav ==
  \/ CliCreateTask
  \/ CliStartTask
  \/ NavStart
  \/ NavKey
  \/ NavTimerTick
  \/ NavAwaitTimeout
  \/ NavTimeout

SpecNav == InitNav /\ [][NextNav]_vars

(* ------------------------------ properties ----------------------------- *)
TaskIdx == 1..Len(data.tasks)

RunningIdx(d) == {i \in 1..Len(d.tasks) : d.tasks[i].status = "running"}

OpenIdx(task) == {k \in 1..Len(task.sessions) : task.sessions[k].endTime = NoTime}

RECURSIVE ClosedSum(_)
ClosedSum(sessions) ==
  IF sessions = <<>> THEN 0
  ELSE (IF Head(sessions).endTime # NoTime THEN Head(sessions).duration ELSE 0)
       + ClosedSum(Tail(sessions))

LifecycleOps == {"createTask", "start", "pause", "stop", "unstop"}

Succeeded(op) == lastCall'.op = op /\ lastCall'.err = Ok

\* the position of the task the call of this step names, 0 when none
Target == findIndex(data, lastCall'.arg)

\* C1: after every completed createTask, start, pause, stop or unstop call,
\* at most one task in the store has status running.
C1_AtMostOneRunning == Cardinality(RunningIdx(data)) <= 1

\* a start has just succeeded while another task was running: the started
\* task runs and the other one was paused by that call
C1_Witness ==
  /\ lastCall.op = "start" /\ lastCall.err = Ok
  /\ \E i, j \in TaskIdx :
       /\ i # j
       /\ data.tasks[i].status = "running"
       /\ data.tasks[j].status = "paused"
       /\ data.tasks[j].sessions # <<>>

\* C2: a task has an open session iff its status is running; it has at most
\* one open session, and that session is the last entry of its sessions.
C2_OpenSessionIffRunning ==
  \A i \in TaskIdx :
    LET task == data.tasks[i] IN
    /\ (OpenIdx(task) # {}) <=> (task.status = "running")
    /\ Cardinality(OpenIdx(task)) <= 1
    /\ OpenIdx(task) \subseteq {Len(task.sessions)}

\* a task restarted after a pause: one closed session followed by the open one
C2_Witness ==
  /\ lastCall.op \in LifecycleOps
  /\ \E i \in TaskIdx :
       /\ data.tasks[i].status = "running"
       /\ Len(data.tasks[i].sessions) = 2
       /\ OpenIdx(data.tasks[i]) = {2}

\* C3: each task's totalTime equals the sum of the durations of its closed
\* sessions; the open session of a running task contributes nothing.
C3_TotalTimeIsClosedSum ==
  \A i \in TaskIdx : data.tasks[i].totalTime = ClosedSum(data.tasks[i].sessions)

\* a running task that already accumulated a full second in a closed session
C3_Witness ==
  /\ lastCall.op \in LifecycleOps
  /\ \E i \in TaskIdx :
       /\ data.tasks[i].status = "running"
       /\ OpenIdx(data.tasks[i]) # {}
       /\ data.tasks[i].totalTime >= 1

\* C4: when start(id) succeeds while a different task r is running, then
\* after the call r is paused, r's last session is closed with duration
\* floor((now - its startTime)/1s), r's totalTime has grown by exactly that
\* duration, and task id is running with one new open session whose
\* startTime and lastStarted are now.  (now is the clock as the call reads
\* it: clock when it pauses r, clock' when it opens the new session.)
C4_StartPausesRunning ==
  [][(Succeeded("start") /\ RunningIdx(data) # {}) =>
       /\ \A r \in RunningIdx(data) :
            LET old == data.tasks[r]
                new == data'.tasks[r]
                n == Len(old.sessions)
                dur == (clock - old.sessions[n].startTime) \div MsPerSecond
            IN /\ r # Target
               /\ new.status = "paused"
               /\ Len(new.sessions) = n
               /\ new.sessions[n] = [startTime |-> old.sessions[n].startTime,
                                     endTime |-> clock, duration |-> dur]
               /\ new.totalTime = old.totalTime + dur
       /\ LET old == data.tasks[Target]
              new == data'.tasks[Target]
          IN /\ new.status = "running"
             /\ new.sessions = Append(old.sessions,
                  [startTime |-> clock', endTime |-> NoTime, duration |-> 0])
             /\ new.lastStarted = clock'
     ]_vars

\* a start has just paused a task whose open session lasted a full second
C4_Witness ==
  /\ lastCall.op = "start" /\ lastCall.err = Ok
  /\ \E i, j \in TaskIdx :
       /\ i # j
       /\ data.tasks[i].status = "running"
       /\ data.tasks[i].lastStarted = clock
       /\ data.tasks[j].status = "paused"
       /\ data.tasks[j].lastPaused = clock
       /\ data.tasks[j].totalTime >= 1

\* C5: for a fresh task, createTask -> start(id) -> clock advances by D ->
\* pause(id) leaves the task paused with totalTime = floor(D) and exactly one
\* session, which is closed and whose duration equals totalTime.
C5_FreshRoundTrip ==
  [][(/\ Succeeded("pause")
      /\ Len(data.tasks[Target].sessions) = 1
      /\ data.tasks[Target].totalTime = 0) =>
       LET old == data.tasks[Target]
           new == data'.tasks[Target]
           D == clock - old.lastStarted
       IN /\ new.status = "paused"
          /\ new.totalTime = D \div MsPerSecond
          /\ Len(new.sessions) = 1
          /\ new.sessions[1].endTime = clock
          /\ new.sessions[1].duration = new.totalTime
     ]_vars

\* a fresh task has just been paused exactly one second after its start
C5_Witness ==
  /\ lastCall.op = "pause" /\ lastCall.err = Ok
  /\ \E i \in TaskIdx :
       /\ data.tasks[i].id = lastCall.arg.v
       /\ data.tasks[i].status = "paused"
       /\ Len(data.tasks[i].sessions) = 1
       /\ data.tasks[i].sessions[1].endTime - data.tasks[i].sessions[1].startTime
            = MsPerSecond
       /\ data.tasks[i].totalTime = 1

\* C6: pause(id) on an existing task whose status is created, paused or
\* stopped fails with a not-running error and leaves that record, every
\* other record and the last-active pointer unchanged.
C6_PauseNotRunningRejected ==
  \A taskId \in IdInputs :
    LET i == findIndex(data, taskId) IN
    (i # 0 /\ data.tasks[i].status \in {"created", "paused", "stopped"}) =>
      LET r == pauseTask(data, taskId, clock, TRUE, TRUE)
      IN /\ r.err = ErrNotRunning
         /\ r.data.tasks = data.tasks
         /\ r.data.lastActiveTaskId = data.lastActiveTaskId
         /\ r.data = data

\* a paused, a stopped and a created task are in the store, each rejected by
\* pause, while the last-active pointer names the paused one
C6_Witness ==
  /\ \E i \in TaskIdx :
       /\ data.tasks[i].status = "paused"
       /\ data.lastActiveTaskId = Num(data.tasks[i].id)
       /\ pauseTask(data, Num(data.tasks[i].id), clock, TRUE, TRUE).err = ErrNotRunning
  /\ \E j \in TaskIdx :
       /\ data.tasks[j].status \in {"stopped", "created"}
       /\ data.lastActiveTaskId # Num(data.tasks[j].id)
       /\ pauseTask(data, Num(data.tasks[j].id), clock, TRUE, TRUE).err = ErrNotRunning

\* C7: unstop(id) on an existing task whose status is not stopped fails with
\* a not-stopped error and leaves the whole store unchanged.
C7_UnstopNotStoppedRejected ==
  \A taskId \in IdInputs :
    LET i == findIndex(data, taskId) IN
    (i # 0 /\ data.tasks[i].status \in {"running", "paused", "created"}) =>
      LET r == unstopTask(data, taskId, TRUE)
      IN /\ r.err = ErrNotStopped
         /\ r.data = data

\* a running task with an open session is in the store and unstop rejects it
C7_Witness ==
  \E i \in TaskIdx :
    /\ data.tasks[i].status = "running"
    /\ OpenIdx(data.tasks[i]) # {}
    /\ unstopTask(data, Num(data.tasks[i].id), TRUE).err = ErrNotStopped

\* C8: stop(id) on a running task produces the same record as pause(id)
\* followed by marking the task stopped: the open session is closed with its
\* duration added to totalTime, status is stopped and stoppedAt is set, and
\* no open session remains.
C8_StopRunningIsPauseThenStopped ==
  [][(/\ Succeeded("stop")
      /\ data.tasks[Target].status = "running") =>
       LET old == data.tasks[Target]
           new == data'.tasks[Target]
           n == Len(old.sessions)
           dur == (clock - old.sessions[n].startTime) \div MsPerSecond
           paused == pauseTask(data, lastCall'.arg, clock, TRUE, TRUE).data.tasks[Target]
       IN /\ new = [paused EXCEPT !.status = "stopped", !.stoppedAt = clock']
          /\ new.sessions = [old.sessions EXCEPT ![n].endTime = clock,
                                                  ![n].duration = dur]
          /\ new.totalTime = old.totalTime + dur
          /\ new.status = "stopped"
          /\ new.stoppedAt # NoTime
          /\ OpenIdx(new) = {}
     ]_vars

\* a running task has just been stopped after running for a full second
C8_Witness ==
  /\ lastCall.op = "stop" /\ lastCall.err = Ok
  /\ \E i \in TaskIdx :
       /\ data.tasks[i].id = lastCall.arg.v
       /\ data.tasks[i].status = "stopped"
       /\ data.tasks[i].lastPaused = data.tasks[i].stoppedAt
       /\ data.tasks[i].sessions # <<>>
       /\ data.tasks[i].totalTime >= 1

\* C9: unstop(id) on a stopped task sets status to paused and clears
\* stoppedAt, and leaves the task's sessions list and totalTime exactly as
\* they were before the unstop.
C9_UnstopRestoresPaused ==
  [][/\ \A taskId \in IdInputs :
          LET i == findIndex(data, taskId) IN
          (i # 0 /\ data.tasks[i].status = "stopped") =>
            unstopTask(data, taskId, TRUE).err = Ok
     /\ lastCall'.op = "unstop" =>
          LET old == data.tasks[Target]
              new == data'.tasks[Target]
          IN /\ lastCall'.err = Ok
             /\ old.status = "stopped"
             /\ new.status = "paused"
             /\ new.stoppedAt = NoTime
             /\ new.sessions = old.sessions
             /\ new.totalTime = old.totalTime
    ]_vars

\* a task with recorded time has just been unstopped
C9_Witness ==
  /\ lastCall.op = "unstop" /\ lastCall.err = Ok
  /\ \E i \in TaskIdx :
       /\ data.tasks[i].id = lastCall.arg.v
       /\ data.tasks[i].status = "paused"
       /\ data.tasks[i].stoppedAt = NoTime
       /\ data.tasks[i].sessions # <<>>
       /\ data.tasks[i].totalTime >= 1

\* C10: a task whose status is stopped leaves that status only through
\* unstop(id), which moves it to paused; start(id) moves only created or
\* paused tasks to running.
C10_StoppedLeavesOnlyByUnstop ==
  [][/\ \A i \in TaskIdx :
          (data.tasks[i].status = "stopped" /\ data'.tasks[i].status # "stopped") =>
            (lastCall'.op = "unstop" /\ data'.tasks[i].status = "paused")
     /\ Succeeded("start") =>
          data.tasks[Target].status \in {"created", "paused"}
    ]_vars

\* C11: across any single lifecycle operation a task's sessions list changes
\* only by appending one new open session or by closing its last entry
\* (endTime and duration set once); a closed session keeps its startTime,
\* endTime and duration forever, and no session is removed or reordered.
C11_SessionsAppendOrClose ==
  [][\A i \in TaskIdx :
       LET old == data.tasks[i].sessions
           new == data'.tasks[i].sessions
           n == Len(old)
       IN /\ i <= Len(data'.tasks)
          /\ \/ new = old
             \/ /\ Len(new) = n + 1
                /\ SubSeq(new, 1, n) = old
                /\ new[n + 1].endTime = NoTime
             \/ /\ n > 0
                /\ Len(new) = n
                /\ SubSeq(new, 1, n - 1) = SubSeq(old, 1, n - 1)
                /\ old[n].endTime = NoTime
                /\ new[n].endTime # NoTime
                /\ new[n].startTime = old[n].startTime
          /\ \A k \in 1..n :
               old[k].endTime # NoTime => (k <= Len(new) /\ new[k] = old[k])
    ]_vars

\* a task with a closed session has just been given a second, open one: the
\* closed session is still first and unchanged in value
C11_Witness ==
  /\ lastCall.op = "start" /\ lastCall.err = Ok
  /\ \E i \in TaskIdx :
       /\ data.tasks[i].id = lastCall.arg.v
       /\ Len(data.tasks[i].sessions) = 2
       /\ data.tasks[i].sessions[1].endTime # NoTime
       /\ data.tasks[i].sessions[1].duration >= 1
       /\ data.tasks[i].sessions[2].endTime = NoTime

\* C12: a task's totalTime changes only in a step that closes that task's
\* open session (pause, the pause inside stop, or the pause inside another
\* task's start); start of the task itself, unstop, createTask and stop of a
\* non-running task leave it unchanged; totalTime never decreases.
C12_TotalTimeOnlyOnClose ==
  [][\A i \in TaskIdx :
       LET old == data.tasks[i]
           new == data'.tasks[i]
           n == Len(old.sessions)
       IN /\ new.totalTime >= old.totalTime
          /\ new.totalTime # old.totalTime =>
               /\ n > 0
               /\ old.sessions[n].endTime = NoTime
               /\ Len(new.sessions) = n
               /\ new.sessions[n].endTime # NoTime
               /\ new.totalTime = old.totalTime + new.sessions[n].duration
               /\ lastCall'.op \in {"pause", "stop", "start"}
               /\ lastCall'.op \in {"pause", "stop"} => i = Target
               /\ lastCall'.op = "start" => i # Target
          /\ (lastCall'.op \in {"unstop", "createTask"}
              \/ (lastCall'.op = "start" /\ i = Target)
              \/ (lastCall'.op = "stop" /\ i = Target /\ old.status # "running"))
               => new.totalTime = old.totalTime
    ]_vars

\* a task that holds a full second of recorded time has just been paused for
\* the second time, by a pause that added nothing
C12_Witness ==
  /\ lastCall.op = "pause" /\ lastCall.err = Ok
  /\ \E i \in TaskIdx :
       /\ data.tasks[i].id = lastCall.arg.v
       /\ Len(data.tasks[i].sessions) = 2
       /\ data.tasks[i].sessions[2].endTime # NoTime
       /\ data.tasks[i].totalTime >= 1

\* every character of s is a space
Blank(s) == \A k \in 1..Len(s) : s[k] = " "

\* t is s without the spaces at its two ends
IsTrimOf(t, s) ==
  \E a, b \in 0..Len(s) :
    /\ a + Len(t) + b = Len(s)
    /\ SubSeq(s, a + 1, a + Len(t)) = t
    /\ \A k \in (1..a) \cup ((Len(s) - b + 1)..Len(s)) : s[k] = " "
    /\ t # <<>> => (t[1] # " " /\ t[Len(t)] # " ")

\* names handed to createTask: those of the create command and some with
\* spaces at either end and inside
C13_Names == NameInputs \cup {<<"a", " ">>, <<" ", "a", " ", "b", " ">>}

\* C13: createTask with a name that is empty after trimming fails with an
\* error, adds no record and does not consume an id; with a non-blank name
\* it adds exactly one record with the trimmed name, status created, an
\* empty sessions list and totalTime 0, and changes no existing record.
\* (Stated of the call's result in every reachable state of the store.)
C13_CreateTask ==
  \A name \in C13_Names :
    LET r == createTask(data, name, <<>>, clock, TRUE)
        n == Len(data.tasks)
    IN IF Blank(name)
       THEN /\ r.err # Ok
            /\ r.data.tasks = data.tasks
            /\ r.data.nextId = data.nextId
       ELSE /\ r.err = Ok
            /\ Len(r.data.tasks) = n + 1
            /\ SubSeq(r.data.tasks, 1, n) = data.tasks
            /\ IsTrimOf(r.data.tasks[n + 1].name, name)
            /\ r.data.tasks[n + 1].status = "created"
            /\ r.data.tasks[n + 1].sessions = <<>>
            /\ r.data.tasks[n + 1].totalTime = 0

\* a second task has just been created next to one that has a session
C13_Witness ==
  /\ lastCall.op = "createTask" /\ lastCall.err = Ok
  /\ Len(data.tasks) = 2
  /\ data.tasks[1].sessions # <<>>
  /\ data.tasks[2].name = <<"a">>
  /\ data.tasks[2].status = "created"
  /\ data.tasks[2].sessions = <<>>

C15_LastActiveIsLastStartedOrPaused ==
  [][(Succeeded("start") \/ Succeeded("pause")) =>
       /\ Target # 0
       /\ storage_getLastActiveTask(data') = Target
    ]_vars

\* the seconds a formatted duration spells
RECURSIVE ShownSeconds(_)
ShownSeconds(text) ==
  IF text = <<>> THEN 0
  ELSE LET part == Head(text)
           unit == CASE part[2] = "h" -> 3600 [] part[2] = "m" -> 60 [] OTHER -> 1
       IN part[1] * unit + ShownSeconds(Tail(text))

\* totalTime plus the whole seconds of the open session for a running task,
\* totalTime for any other task
ElapsedForDisplay(task, now) ==
  IF task.status = "running"
  THEN task.totalTime + ((now - task.lastStarted) \div 1000)
  ELSE task.totalTime

\* C16 as stated: the elapsed time computed for display, by
\* getCurrentRunningTime and by render, is totalTime + floor((now -
\* lastStarted)/1s) for a running task and exactly totalTime for a task in
\* any other status.
C16_Original ==
  \A i \in TaskIdx :
    LET summary == getTaskSummary(data.tasks[i]) IN
    /\ getCurrentRunningTime(summary, clock) = ElapsedForDisplay(data.tasks[i], clock)
    /\ ShownSeconds(timeDisplay(summary, clock)) = ElapsedForDisplay(data.tasks[i], clock)

\* C16 (amended): the time render shows per task is totalTime + floor((now -
\* lastStarted)/1s) for a running task and exactly totalTime for a task in
\* any other status; getCurrentRunningTime returns that same value for a
\* running task and 0 for a task in any other status.  Both are functions of
\* a task summary and the clock and return a value only: no store is written.
C16_DisplayTime ==
  \A i \in TaskIdx :
    LET task == data.tasks[i]
        summary == getTaskSummary(task)
    IN /\ ShownSeconds(timeDisplay(summary, clock)) = ElapsedForDisplay(task, clock)
       /\ getCurrentRunningTime(summary, clock) =
            IF task.status = "running" THEN ElapsedForDisplay(task, clock) ELSE 0

\* a task has been running for a full second while another one is paused
C16_Witness ==
  \E i, j \in TaskIdx :
    /\ data.tasks[i].status = "running"
    /\ clock - data.tasks[i].lastStarted >= MsPerSecond
    /\ ShownSeconds(timeDisplay(getTaskSummary(data.tasks[i]), clock)) >= 1
    /\ data.tasks[j].status = "paused"

(* ---------------------- control loop: properties ----------------------- *)
\* this step is an Enter on a non-blank input line
Committed == lastCall'.op = "enter" /\ trim(vm.inputBuffer) # <<>>

\* the words of the line being committed, its command word and the rest
Words == split(trim(vm.inputBuffer))
Command == toLowerCase(Head(Words))
Arg == join(Tail(Words))

IsDigits(s) ==
  /\ s # <<>>
  /\ \A k \in 1..Len(s) : s[k] \in {"0", "1", "2", "3", "4", "5", "6", "7", "8", "9"}

\* the number a text of digits spells
RECURSIVE NumberOf(_)
NumberOf(s) ==
  IF s = <<>> THEN 0
  ELSE LET last == s[Len(s)]
           digit == CHOOSE n \in 0..9 :
                      <<"0", "1", "2", "3", "4", "5", "6", "7", "8", "9">>[n + 1] = last
       IN 10 * NumberOf(SubSeq(s, 1, Len(s) - 1)) + digit

\* C17: committing a line whose first token is not start, stop, exit or quit
\* (case-insensitive) creates a new task named by the entire trimmed line,
\* even when a task of that name exists, and starts it: afterwards the new
\* task is the only running task, and the task that was running before is
\* paused with its elapsed seconds added to totalTime.
C17_FreeTextCreatesAndStarts ==
  [][(Committed /\ Command \notin {WordStart, WordStop, WordExit, WordQuit}) =>
       LET n == Len(data.tasks) IN
       /\ Len(data'.tasks) = n + 1
       /\ IsTrimOf(data'.tasks[n + 1].name, vm.inputBuffer)
       /\ RunningIdx(data') = {n + 1}
       /\ \A i \in 1..n :
            LET old == data.tasks[i]
                new == data'.tasks[i]
            IN IF old.status = "running"
               THEN /\ new.status = "paused"
                    /\ new.totalTime = old.totalTime +
                         ((clock - old.sessions[Len(old.sessions)].startTime) \div 1000)
               ELSE new = old
    ]_vars

\* the same line has been committed twice, a second apart: two tasks of one
\* name, the first paused with its second recorded, the new one running
C17_Witness ==
  /\ lastCall.op = "enter" /\ lastCall.err = Ok
  /\ vm.statusMessage.kind = "Created and started"
  /\ Len(data.tasks) = 2
  /\ data.tasks[1].name = data.tasks[2].name
  /\ data.tasks[1].status = "paused"
  /\ data.tasks[1].totalTime >= 1
  /\ data.tasks[2].status = "running"

\* C18: in the control loop, committing `start <arg>` where <arg> is all
\* digits and matches no task (by id or by name) reports not-found and
\* creates no task: the number of records and nextId are unchanged.
C18_StartNumberCreatesNothing ==
  [][(/\ Committed /\ Command = WordStart /\ Len(Words) > 1 /\ IsDigits(Arg)
      /\ \A i \in TaskIdx :
           /\ data.tasks[i].id # NumberOf(Arg)
           /\ ~includes(toLowerCase(data.tasks[i].name), toLowerCase(Arg)))
       => /\ Len(data'.tasks) = Len(data.tasks)
          /\ data'.nextId = data.nextId
          /\ vm'.statusMessage.kind \notin {"Created and started", "Started", "Resumed"}
    ]_vars

\* C19: committing `start <name>` with a non-numeric <name> starts the first
\* task in store order, among all non-stopped tasks in the store, whose name
\* contains <name> case-insensitively; a new task is created only when no
\* non-stopped task in the store matches.
C19_StartNameResolvesInStore ==
  [][(Committed /\ Command = WordStart /\ Len(Words) > 1 /\ ~IsDigits(Arg)) =>
       LET matches == {i \in TaskIdx :
                         /\ data.tasks[i].status # "stopped"
                         /\ includes(toLowerCase(data.tasks[i].name), toLowerCase(Arg))}
           n == Len(data.tasks)
       IN IF matches # {}
          THEN /\ Len(data'.tasks) = n
               /\ data'.tasks[CHOOSE i \in matches : \A j \in matches : i <= j].status
                    = "running"
          ELSE /\ Len(data'.tasks) = n + 1
               /\ data'.tasks[n + 1].name = Arg
               /\ data'.tasks[n + 1].status = "running"
    ]_vars

\* C20: committing `start` with no argument starts the task named by the
\* last-active pointer; when the pointer is unset or names a stopped task it
\* only shows a message and changes no record; no stopped task becomes
\* running.
C20_StartAloneResumesLast ==
  [][(Committed /\ Command = WordStart /\ Len(Words) = 1) =>
       LET p == findIndex(data, data.lastActiveTaskId) IN
       /\ IF p = 0 \/ data.tasks[p].status = "stopped"
          THEN /\ data'.tasks = data.tasks
               /\ vm'.statusMessage # NoMessage
          ELSE data'.tasks[p].status = "running"
       /\ \A i \in TaskIdx :
            data.tasks[i].status = "stopped" => data'.tasks[i].status = "stopped"
    ]_vars

\* C21: committing `stop` in the control loop pauses the running task (its
\* status becomes paused, no task becomes stopped) and leaves no task
\* running; when no task is running the store is unchanged and a message is
\* shown.
C21_StopPausesRunning ==
  [][(Committed /\ Command = WordStop) =>
       IF RunningIdx(data) # {}
       THEN /\ lastCall'.err = Ok
            /\ \A i \in RunningIdx(data) : data'.tasks[i].status = "paused"
            /\ RunningIdx(data') = {}
            /\ Len(data'.tasks) = Len(data.tasks)
            /\ \A i \in TaskIdx :
                 data'.tasks[i].status = "stopped" => data.tasks[i].status = "stopped"
            /\ vm'.statusMessage.kind = "Paused"
       ELSE /\ data' = data
            /\ vm'.statusMessage.kind = "No task is currently running"]_vars

\* `stop` has paused the second task while the first one is selected
C21_Witness ==
  /\ lastCall.op = "enter" /\ lastCall.err = Ok
  /\ vm.isActive /\ vm.selectedIndex = 0
  /\ vm.statusMessage.kind = "Paused"
  /\ Len(data.tasks) = 2
  /\ vm.statusMessage.name = data.tasks[2].name
  /\ data.tasks[1].name # data.tasks[2].name
  /\ data.tasks[2].status = "paused"
  /\ Len(data.tasks[2].sessions) = 1
  /\ RunningIdx(data) = {}

\* Enter is handled with an empty input buffer and a non-empty list
Toggles == lastCall'.op = "enter" /\ vm.inputBuffer = <<>> /\ Len(vm.tasks) > 0

\* the position in the store of the task the list shows as selected
SelectedIdx == findIndex(data, Num(vm.tasks[vm.selectedIndex + 1].id))

\* C22: Enter with an empty inputBuffer and a non-empty list applies one
\* lifecycle operation to the task at selectedIndex: it pauses that task if
\* it is running, and otherwise starts it (one new session), which pauses
\* the task that was running; every other task is left as it was.
C22_EnterTogglesSelected ==
  [][Toggles =>
       /\ lastCall'.err = Ok
       /\ SelectedIdx \in TaskIdx
       /\ Len(data'.tasks) = Len(data.tasks)
       /\ IF data.tasks[SelectedIdx].status = "running"
          THEN /\ data'.tasks[SelectedIdx].status = "paused"
               /\ Len(data'.tasks[SelectedIdx].sessions)
                    = Len(data.tasks[SelectedIdx].sessions)
               /\ \A i \in TaskIdx \ {SelectedIdx} : data'.tasks[i] = data.tasks[i]
          ELSE /\ data'.tasks[SelectedIdx].status = "running"
               /\ Len(data'.tasks[SelectedIdx].sessions)
                    = Len(data.tasks[SelectedIdx].sessions) + 1
               /\ \A i \in RunningIdx(data) : data'.tasks[i].status = "paused"
               /\ \A i \in TaskIdx \ (RunningIdx(data) \cup {SelectedIdx}) :
                    data'.tasks[i] = data.tasks[i]]_vars

\* Enter on the second entry of the list has started the second task and
\* paused the first one, which had been started by Enter on the first entry
C22_Witness ==
  /\ lastCall.op = "enter" /\ lastCall.err = Ok
  /\ vm.isActive /\ vm.selectedIndex = 1
  /\ vm.statusMessage.kind = "Started"
  /\ Len(data.tasks) = 2
  /\ data.tasks[2].status = "running"
  /\ Len(data.tasks[2].sessions) = 2
  /\ data.tasks[1].status = "paused"
  /\ Len(data.tasks[1].sessions) = 2

\* the step is the one toggleSelectedTask makes, and it changes the store
Toggled ==
  \E r \in {toggleSelectedTask(vm, data, clock)} :
    r.data # data /\ data' = r.data /\ vm' = r.vm

\* C23: whenever inputBuffer holds at least one character, Enter does not
\* start or pause the selected task by toggling; toggling needs a buffer of
\* length 0.
C23_TogglesOnlyOnEmptyBuffer ==
  [][(lastCall'.op = "enter" /\ Len(vm.inputBuffer) > 0) => ~Toggled]_vars

\* C24: whenever Enter is handled with a non-empty inputBuffer and the loop
\* stays active, inputBuffer is empty when the handler returns, whether the
\* command succeeded or raised an error.
C24_EnterClearsBuffer ==
  [][(lastCall'.op = "enter" /\ Len(vm.inputBuffer) > 0 /\ vm'.isActive)
       => vm'.inputBuffer = <<>>]_vars

\* the same for the lines that hold more than white space
CommittedLineClearsBuffer ==
  [][(Committed /\ vm'.isActive) => vm'.inputBuffer = <<>>]_vars

\* C25: in the control loop, after every key handler and every refresh tick,
\* selectedIndex is 0 when the list is empty and otherwise lies in
\* 0..len(list)-1, also after the list has shrunk; Up and Down change it by
\* at most 1 and change nothing on an empty list.
C25_SelectedIndexInRange ==
  /\ [](vm.isActive =>
          IF Len(vm.tasks) = 0 THEN vm.selectedIndex = 0
          ELSE 0 <= vm.selectedIndex /\ vm.selectedIndex <= Len(vm.tasks) - 1)
  /\ [][lastCall'.op \in {"up", "down"} =>
          /\ [vm' EXCEPT !.selectedIndex = vm.selectedIndex] = vm
          /\ vm'.selectedIndex - vm.selectedIndex \in {-1, 0, 1}
          /\ lastCall'.op = "up" => vm'.selectedIndex <= vm.selectedIndex
          /\ lastCall'.op = "down" => vm'.selectedIndex >= vm.selectedIndex
          /\ Len(vm.tasks) = 0 => vm' = vm
       ]_vars

\* the second of two listed tasks was selected when another process stopped
\* it; the refresh tick has shortened the list to one entry and moved the
\* selection to it
C25_Witness ==
  /\ vm.isActive
  /\ lastCall = Call("refresh", Num(1), Ok)
  /\ Len(vm.tasks) = 1 /\ vm.selectedIndex = 0
  /\ Len(data.tasks) = 2
  /\ data.tasks[2].status = "stopped"
  /\ vm.tasks[1].id = data.tasks[1].id

\* C26: Escape with a non-empty inputBuffer empties the buffer and keeps the
\* loop active; Escape exits the loop only when inputBuffer is already
\* empty; in neither case does a task record change.
C26_EscapeClearsOrExits ==
  [][lastCall'.op = "escape" =>
       /\ data' = data
       /\ IF Len(vm.inputBuffer) > 0
          THEN /\ vm' = [vm EXCEPT !.inputBuffer = <<>>]
               /\ vm'.isActive /\ ~vm'.exited
          ELSE ~vm'.isActive /\ vm'.exited
     ]_vars

\* Escape has emptied the buffer of a loop that shows a running task: the
\* loop is still open (on an empty buffer Escape closes it)
C26_Witness ==
  /\ lastCall.op = "escape"
  /\ vm.isActive /\ ~vm.exited
  /\ vm.inputBuffer = <<>>
  /\ Len(vm.tasks) = 1 /\ vm.tasks[1].status = "running"
  /\ RunningIdx(data) = {1}

\* C27: every error raised by a lifecycle operation that a keystroke
\* triggers, through a committed line or through Enter-toggle of the
\* selected task, is caught inside the key handler and shown as a message,
\* and the loop stays active: no error propagates out of the handler.
C27_ErrorsAreCaught ==
  /\ [](vm.uncaught = Ok)
  /\ [][(lastCall'.op = "enter" /\ lastCall'.err # Ok) =>
          /\ vm'.isActive
          /\ vm'.statusMessage.kind = "Error"
          /\ vm'.statusMessage.name = <<lastCall'.err>>
       ]_vars

\* the same for the errors of committed command lines alone
CommandErrorsAreCaught ==
  [][(Committed /\ lastCall'.err # Ok) =>
       /\ vm'.uncaught = Ok /\ vm'.isActive
       /\ vm'.statusMessage.kind = "Error"
       /\ vm'.statusMessage.name = <<lastCall'.err>>
    ]_vars

\* C28: when the control loop has exited (exit or quit command, Escape on an
\* empty buffer, or interrupt), no timer is pending: neither the refresh
\* timer, nor the cursor-blink timer, nor a message-expiry timeout.
C28_ExitClearsAllTimers ==
  vm.exited => /\ ~vm.timerInterval
               /\ ~vm.cursorInterval
               /\ vm.timeouts = {}

\* the same for the two recurring timers alone
ExitClearsIntervals == vm.exited => ~vm.timerInterval /\ ~vm.cursorInterval

\* C29: a message set with display duration d stays displayed until d has
\* passed since it was set, unless a newer message replaces it: as long as
\* the duration of the latest message has not passed, a message is on
\* display, so the timeout of an earlier message never clears a later one.
C29_MessageLastsItsDuration ==
  (vm.isActive /\ vm.messageDue # NoTime /\ clock < vm.messageDue)
    => vm.statusMessage # NoMessage

\* the timeout of a message set at 0 has cleared, at 2000, a message that
\* was set at 500 for 2000 ms
EarlyTimeoutClearedLaterMessage ==
  /\ vm.isActive /\ lastCall.op = "timeout"
  /\ clock = 2000 /\ vm.messageDue = TickMs + 2000
  /\ vm.statusMessage = NoMessage

\* the today view of the store without the stopped tasks
TodayNotStopped(d, now) ==
  SelectSeq(getTodaysTasks(d, now), LAMBDA task : task.status # "stopped")

\* C30: when the Enter handler returns after an action that changed the
\* store (toggle, start, stop, free-text create-and-start), the loop's list
\* is the today view of the store at that moment without the stopped tasks,
\* and every listed entry carries the stored status and totalTime.
C30_ListFollowsStore ==
  [][(lastCall'.op = "enter" /\ data' # data) =>
       /\ vm'.tasks = TodayNotStopped(data', clock')
       /\ \A k \in 1..Len(vm'.tasks) :
            \E i \in 1..Len(data'.tasks) :
              /\ data'.tasks[i].id = vm'.tasks[k].id
              /\ data'.tasks[i].status = vm'.tasks[k].status
              /\ data'.tasks[i].status # "stopped"
              /\ data'.tasks[i].totalTime = vm'.tasks[k].totalTimeSeconds
              /\ formatDuration(data'.tasks[i].totalTime) = vm'.tasks[k].totalTime
     ]_vars

\* a free-text line has created and started the second task a second after
\* the first one was started in the loop: the list shows the first task
\* paused with its second and the new one running
C30_Witness ==
  /\ lastCall.op = "enter" /\ lastCall.err = Ok
  /\ vm.isActive
  /\ vm.statusMessage.kind = "Created and started"
  /\ Len(data.tasks) = 2 /\ Len(vm.tasks) = 2
  /\ vm.tasks[1].status = "paused" /\ vm.tasks[1].totalTimeSeconds = 1
  /\ data.tasks[1].totalTime = 1
  /\ vm.tasks[2].status = "running"
  /\ vm.tasks = TodayNotStopped(data, clock)

(* ------------------- faulty store and later properties ------------------ *)
\* the store after the lifecycle call of this step had all its writes done
FullEffect ==
  CASE lastCall'.op = "start" ->
         startTask(data, lastCall'.arg, clock, clock', AllWritesOk).data
    [] lastCall'.op = "pause" ->
         pauseTask(data, lastCall'.arg, clock, TRUE, TRUE).data
    [] lastCall'.op = "stop" ->
         stopTask(data, lastCall'.arg, clock, clock', AllWritesOk).data
    [] lastCall'.op = "unstop" ->
         unstopTask(data, lastCall'.arg, TRUE).data
    [] OTHER -> data'

\* C31: each lifecycle operation (start, pause, stop, unstop) is atomic
\* against the store: the persisted state after the call holds either all
\* of its effects (statuses, sessions, totalTime, last-active pointer) or
\* none of them, also when one of its writes fails and is only logged.
C31_LifecycleIsAtomic ==
  [][lastCall'.op \in {"start", "pause", "stop", "unstop"}
       => data' \in {data, FullEffect}]_vars

\* C32: start(id) on an unknown id fails with not-found, and start(id) on
\* the task that is already running fails with already-running; in both
\* cases no record changes, no running task is paused, no session is
\* appended and the last-active pointer is unchanged.
C32_StartRejected ==
  \A taskId \in IdInputs, now2 \in {clock, clock + TickMs} :
    LET i == findIndex(data, taskId)
        r == startTask(data, taskId, clock, now2, AllWritesOk)
    IN /\ i = 0 =>
            /\ r.err = ErrNotFound
            /\ r.data = data
       /\ (i # 0 /\ data.tasks[i].status = "running") =>
            /\ r.err = ErrAlreadyRunning
            /\ r.data.tasks = data.tasks
            /\ r.data.lastActiveTaskId = data.lastActiveTaskId
            /\ r.data = data

\* task 2 is running, task 1 was paused when task 2 was started: starting
\* task 2 again is rejected, and so is starting the unknown id 3
C32_Witness ==
  /\ Len(data.tasks) = 2
  /\ data.tasks[2].status = "running"
  /\ data.tasks[1].status = "paused" /\ Len(data.tasks[1].sessions) = 1
  /\ data.lastActiveTaskId = Num(2)
  /\ startTask(data, Num(2), clock, clock, AllWritesOk).err = ErrAlreadyRunning
  /\ startTask(data, Num(3), clock, clock, AllWritesOk).err = ErrNotFound
  /\ Num(3) \in IdInputs

\* C33: a successful pause(id), stop(id) or unstop(id) changes no task
\* record other than task id; a successful start(id) changes no task record
\* other than task id and the task that was running before the call; nextId
\* is unchanged by all four.
C33_OtherRecordsUntouched ==
  [][/\ (Succeeded("pause") \/ Succeeded("stop") \/ Succeeded("unstop")) =>
          /\ Len(data'.tasks) = Len(data.tasks)
          /\ \A i \in TaskIdx \ {Target} : data'.tasks[i] = data.tasks[i]
          /\ data'.nextId = data.nextId
     /\ Succeeded("start") =>
          /\ Len(data'.tasks) = Len(data.tasks)
          /\ \A i \in TaskIdx \ ({Target} \cup RunningIdx(data)) :
               data'.tasks[i] = data.tasks[i]
          /\ data'.nextId = data.nextId
    ]_vars

\* task 2, running, has just been stopped; task 1 is paused and keeps the
\* second it had recorded
C33_Witness ==
  /\ lastCall = Call("stop", Num(2), Ok)
  /\ Len(data.tasks) = 2
  /\ data.tasks[2].status = "stopped" /\ Len(data.tasks[2].sessions) = 1
  /\ data.tasks[1].status = "paused" /\ data.tasks[1].totalTime = 1
  /\ data.tasks[1].stoppedAt = NoTime

\* C34: with a non-decreasing clock, the elapsed time displayed for a task
\* (totalTime when not running, totalTime + floor((now - lastStarted)/1s)
\* when running) never decreases from one state to the next, across start,
\* pause, stop, unstop and clock ticks; a pause at time t leaves totalTime
\* equal to the value displayed at t just before it; and lastStarted of a
\* running task is the startTime of its open session.
C34_DisplayedTimeNeverDecreases ==
  /\ [](\A i \in RunningIdx(data) :
          LET task == data.tasks[i]
          IN /\ task.sessions # <<>>
             /\ task.sessions[Len(task.sessions)].endTime = NoTime
             /\ task.sessions[Len(task.sessions)].startTime = task.lastStarted)
  /\ [][/\ clock' >= clock
        /\ \A i \in TaskIdx :
             /\ i <= Len(data'.tasks)
             /\ ElapsedForDisplay(data'.tasks[i], clock')
                  >= ElapsedForDisplay(data.tasks[i], clock)
        /\ Succeeded("pause") =>
             data'.tasks[Target].totalTime
               = ElapsedForDisplay(data.tasks[Target], clock)
       ]_vars

\* a task started at 0 has just been paused at 1000: its display showed one
\* second while it ran and its totalTime is that second
C34_Witness ==
  /\ lastCall.op = "pause" /\ lastCall.err = Ok
  /\ clock = 2 * TickMs
  /\ \E i \in TaskIdx :
       /\ Num(data.tasks[i].id) = lastCall.arg
       /\ data.tasks[i].status = "paused"
       /\ data.tasks[i].lastStarted = 0
       /\ data.tasks[i].lastPaused = clock
       /\ data.tasks[i].totalTime = 1

\* C35: after every completed lifecycle operation, a task has a stoppedAt
\* timestamp if and only if its status is stopped.
C35_StoppedAtIffStopped ==
  \A i \in TaskIdx :
    data.tasks[i].stoppedAt # NoTime <=> data.tasks[i].status = "stopped"

\* the same, step by step, for every call but the start of a stopped task
StoppedAtKeptByOtherCalls ==
  [][(/\ C35_StoppedAtIffStopped
      /\ ~(lastCall'.op = "start" /\ Target # 0
           /\ data.tasks[Target].status = "stopped"))
       => \A i \in 1..Len(data'.tasks) :
            data'.tasks[i].stoppedAt # NoTime <=> data'.tasks[i].status = "stopped"
    ]_vars

\* C36: in the arrow-key navigation view, once exit() or exitToCommandMode()
\* has run, no callback scheduled by that view renders a frame or replaces
\* its task list, whatever the order of Enter, exit keys and pending timers.
C36_NoCallbackAfterExit ==
  /\ [](vm.left => vm.screen # "frame")
  /\ [][vm.left => vm'.tasks = vm.tasks]_vars

\* the view was left right after Enter; the prompt came back, and a second
\* after the Enter its timeout has drawn the frame over the prompt
FrameDrawnOverPrompt ==
  /\ vm.left /\ ~vm.isActive
  /\ lastCall.op = "timeout"
  /\ clock = 1000 /\ vm.timeouts = {}
  /\ vm.screen = "frame"

\* C37: while the control loop stays active and timers fire fairly, every
\* transient message is eventually cleared; and once statusMessage is empty
\* it stays empty until a further message is shown by a key handler.
C37_MessageEventuallyCleared ==
  /\ (vm.statusMessage # NoMessage)
       ~> (vm.statusMessage = NoMessage \/ ~vm.isActive)
  /\ [][(vm.statusMessage = NoMessage /\ vm'.statusMessage # NoMessage)
          => lastCall'.op = "enter"]_vars

\* the timeout of the only message shown has run when it was due: nothing
\* is displayed, no timeout is pending and the loop is active
C37_Witness ==
  /\ vm.isActive
  /\ lastCall.op = "timeout"
  /\ vm.messageDue # NoTime /\ clock = vm.messageDue
  /\ vm.timeouts = {}
  /\ vm.statusMessage = NoMessage

====
